---- MODULE Spec2Model ----
(***************************************************************************)
(* State-machine model of utiltest.py: the TestBench experiment engine     *)
(* and the TMPFileManager temporary-resource manager, over a small POSIX   *)
(* filesystem.                                                             *)
(*                                                                         *)
(* Representation of Python values:                                        *)
(*   str    a sequence of code points (naturals)                           *)
(*   bytes  a sequence of octets 0..255                                    *)
(*   None   the record PyNone; an optional int is <<>> (None) or <<i>>     *)
(*   file-check modes are tagged records (bool / int / str), because       *)
(*   Python compares True == 1 and False == 0                              *)
(* Paths are names of canonical filesystem locations: "d", "d/x" (the      *)
(* entry x inside d) and "l".  "/" stands for the working directory.       *)
(***************************************************************************)
EXTENDS Integers, Sequences, FiniteSets, TLC

VARIABLES
    cmd,        \* TestBench.cmd: list of tokens
    stdin,      \* TestBench.stdin: None, bytes, or (after a failure) str
    code,       \* TestBench.code: expected exit code
    stdout,     \* TestBench.stdout: expected stdout text
    stderr,     \* TestBench.stderr: expected stderr text
    files,      \* TestBench.files: list of (filename, mode)
    fs,         \* the filesystem: path -> node
    tmp_files,  \* TMPFileManager.files: tracked paths, registration order
    own_files,  \* TMPFileManager.own_files: paths created by add_file
    phase,      \* position of the with-block: "with", "exit", "done"
    idx,        \* __exit__: index into tmp_files of the next entry to handle
    hist,       \* observation: what the caller did in the scope so far
    last,       \* the last operation called and its arguments
    exc         \* what the last operation raised (type "none": it returned)

vars == <<cmd, stdin, code, stdout, stderr, files, fs,
          tmp_files, own_files, phase, idx, hist, last, exc>>

benchVars == <<cmd, stdin, code, stdout, stderr, files>>
tmpVars == <<tmp_files, own_files, phase, idx, hist>>

-----------------------------------------------------------------------------
(* Bounds of the model *)

MaxCmd == 1
MaxCmdEdit == 3
MaxChecks == 1
MaxFileChecks == 2
MaxTracked == 3

-----------------------------------------------------------------------------
(* Sequence helpers *)

RemoveAt(s, i) == [k \in 1..(Len(s) - 1) |-> IF k < i THEN s[k] ELSE s[k + 1]]

InsertAt(s, i, x) ==
    [k \in 1..(Len(s) + 1) |-> IF k < i THEN s[k] ELSE IF k = i THEN x ELSE s[k - 1]]

RECURSIVE SeqsUpTo(_, _)
SeqsUpTo(S, n) ==
    IF n = 0 THEN {<<>>}
    ELSE LET shorter == SeqsUpTo(S, n - 1)
         IN  shorter \cup {Append(s, x) : s \in {t \in shorter : Len(t) = n - 1}, x \in S}

-----------------------------------------------------------------------------
(* Python values *)

PyNone == [kind |-> "None", val |-> <<>>]
PyBytes(b) == [kind |-> "bytes", val |-> b]
PyStr(s) == [kind |-> "str", val |-> s]

\* bool(x) for None / bytes / str: None and empty values are false
Truthy(v) == v.kind # "None" /\ v.val # <<>>

\* str.encode('utf-8'), for code points below 2048
EncodeChar(cp) ==
    IF cp < 128 THEN <<cp>> ELSE <<192 + (cp \div 64), 128 + (cp % 64)>>

RECURSIVE Encode(_)
Encode(s) == IF s = <<>> THEN <<>> ELSE EncodeChar(Head(s)) \o Encode(Tail(s))

\* bytes.decode(): strict UTF-8; ok = FALSE stands for UnicodeDecodeError
RECURSIVE Decode(_)
Decode(b) ==
    IF b = <<>> THEN [ok |-> TRUE, text |-> <<>>]
    ELSE IF b[1] < 128
         THEN LET r == Decode(Tail(b))
              IN  [ok |-> r.ok, text |-> <<b[1]>> \o r.text]
    ELSE IF b[1] >= 194 /\ b[1] < 224 /\ Len(b) >= 2 /\ b[2] >= 128 /\ b[2] < 192
         THEN LET r == Decode(Tail(Tail(b)))
              IN  [ok |-> r.ok, text |-> <<(b[1] - 192) * 64 + (b[2] - 128)>> \o r.text]
    ELSE [ok |-> FALSE, text |-> <<>>]

CR == 13
LF == 10

\* text-mode read (newline=None): "\r\n" and "\r" are translated to "\n"
RECURSIVE UniversalNewlines(_)
UniversalNewlines(s) ==
    IF s = <<>> THEN <<>>
    ELSE IF s[1] = CR
         THEN IF Len(s) >= 2 /\ s[2] = LF
              THEN <<LF>> \o UniversalNewlines(Tail(Tail(s)))
              ELSE <<LF>> \o UniversalNewlines(Tail(s))
    ELSE <<s[1]>> \o UniversalNewlines(Tail(s))

-----------------------------------------------------------------------------
(* Exceptions *)

NoExc == [type |-> "none"]
Raise(t) == [type |-> t]
RaiseMsg(t, m) == [type |-> t, msg |-> m]

-----------------------------------------------------------------------------
(* The filesystem.  A node is absent, a directory, a regular file with its  *)
(* bytes, or a symbolic link with the path it names.  "d/x" lies inside     *)
(* "d"; "d" and "l" lie in the working directory "/".  No operation of the   *)
(* model puts a symbolic link at "d", so no path runs through a link.        *)

Paths == {"d", "d/x", "l"}

Parent(p) == IF p = "d/x" THEN "d" ELSE "/"

Absent == [t |-> "none"]
Dir == [t |-> "dir"]
File(data) == [t |-> "file", data |-> data]
Link(to) == [t |-> "link", to |-> to]

EmptyFs == [p \in Paths |-> Absent]

\* the directory holding p is there, so p can be looked up at all
Reachable(f, p) == IF Parent(p) = "/" THEN TRUE ELSE f[Parent(p)].t = "dir"

\* lstat(p) succeeds: something, a dangling link included, is at p
LExists(f, p) == Reachable(f, p) /\ f[p].t # "none"

\* stat(p): the node p names once symbolic links are followed; Absent when
\* the chain dangles or loops (ELOOP)
RECURSIVE Follow(_, _, _)
Follow(f, p, fuel) ==
    IF ~LExists(f, p) THEN Absent
    ELSE IF f[p].t # "link" THEN f[p]
    ELSE IF fuel = 0 THEN Absent
    ELSE Follow(f, f[p].to, fuel - 1)

Stat(f, p) == Follow(f, p, Cardinality(Paths))

\* os.path.exists / isdir / isfile follow symbolic links; islink does not
exists(f, p) == Stat(f, p).t # "none"
isdir(f, p) == Stat(f, p).t = "dir"
isfile(f, p) == Stat(f, p).t = "file"
islink(f, p) == LExists(f, p) /\ f[p].t = "link"

\* the path of the file that open(p) reaches through symbolic links
RECURSIVE Target(_, _, _)
Target(f, p, fuel) ==
    IF LExists(f, p) /\ f[p].t = "link" /\ fuel > 0
    THEN Target(f, f[p].to, fuel - 1)
    ELSE p

\* os.path.realpath: links are followed; a path that does not exist, or a
\* link that names itself, is returned as it stands
realpath(f, p) == Target(f, p, Cardinality(Paths))

IsEmptyDir(f, p) == f[p].t = "dir" /\ \A q \in Paths : Parent(q) = p => f[q].t = "none"

\* os.rmdir(p): [err, fs]
rmdir(f, p) ==
    IF ~LExists(f, p) THEN [err |-> "FileNotFoundError", fs |-> f]
    ELSE IF f[p].t # "dir" THEN [err |-> "NotADirectoryError", fs |-> f]
    ELSE IF ~IsEmptyDir(f, p) THEN [err |-> "OSError", fs |-> f]
    ELSE [err |-> "none", fs |-> [f EXCEPT ![p] = Absent]]

\* os.remove(p): unlinks a file or the link itself, never a directory
remove(f, p) ==
    IF ~LExists(f, p) THEN [err |-> "FileNotFoundError", fs |-> f]
    ELSE IF f[p].t = "dir" THEN [err |-> "IsADirectoryError", fs |-> f]
    ELSE [err |-> "none", fs |-> [f EXCEPT ![p] = Absent]]

\* open(p, 'r').read(): [err, text]
ReadText(f, p) ==
    LET n == Stat(f, p)
    IN  IF n.t = "none" THEN [err |-> "FileNotFoundError", text |-> <<>>]
        ELSE IF n.t = "dir" THEN [err |-> "IsADirectoryError", text |-> <<>>]
        ELSE IF ~Decode(n.data).ok THEN [err |-> "UnicodeDecodeError", text |-> <<>>]
        ELSE [err |-> "none", text |-> UniversalNewlines(Decode(n.data).text)]

-----------------------------------------------------------------------------
(* TestBench: selectors and file-check modes *)

CMD == 1
STDIN == 2
CODE == 4
STDOUT == 8
STDERR == 16
FILES == 32
ALL == 63

\* Python's a & b on naturals
RECURSIVE BitAnd(_, _)
BitAnd(a, b) ==
    IF a = 0 \/ b = 0 THEN 0
    ELSE (a % 2) * (b % 2) + 2 * BitAnd(a \div 2, b \div 2)

ModeBool(b) == [k |-> "bool", v |-> b]
ModeInt(i) == [k |-> "int", v |-> i]
ModeStr(s) == [k |-> "str", v |-> s]

EXISTS == ModeBool(TRUE)
NOT_EXISTS == ModeBool(FALSE)

\* Python's == on modes: bool is a subclass of int, True == 1, False == 0;
\* a str equals only an equal str
ModeNum(m) == IF m.k = "bool" THEN (IF m.v THEN 1 ELSE 0) ELSE m.v
PyEq(a, b) ==
    IF a.k = "str" \/ b.k = "str" THEN a.k = b.k /\ a.v = b.v
    ELSE ModeNum(a) = ModeNum(b)

-----------------------------------------------------------------------------
(* TestBench: reset and the command mutators *)

Called(op, arg) == last' = [op |-> op, arg |-> arg]

\* Faulty variant of reset: the STDERR branch tests the STDOUT bit
reset_stderr_on_stdout_bit(what) ==
    /\ cmd' = IF BitAnd(what, CMD) # 0 THEN <<>> ELSE cmd
    /\ stdin' = IF BitAnd(what, STDIN) # 0 THEN PyNone ELSE stdin
    /\ code' = IF BitAnd(what, CODE) # 0 THEN 0 ELSE code
    /\ stdout' = IF BitAnd(what, STDOUT) # 0 THEN <<>> ELSE stdout
    /\ stderr' = IF BitAnd(what, STDOUT) # 0 THEN <<>> ELSE stderr
    /\ files' = IF BitAnd(what, FILES) # 0 THEN <<>> ELSE files
    /\ exc' = NoExc
    /\ Called("reset", what)
    /\ UNCHANGED <<fs, tmpVars>>

reset(what) ==
    /\ cmd' = IF BitAnd(what, CMD) # 0 THEN <<>> ELSE cmd
    /\ stdin' = IF BitAnd(what, STDIN) # 0 THEN PyNone ELSE stdin
    /\ code' = IF BitAnd(what, CODE) # 0 THEN 0 ELSE code
    /\ stdout' = IF BitAnd(what, STDOUT) # 0 THEN <<>> ELSE stdout
    /\ stderr' = IF BitAnd(what, STDERR) # 0 THEN <<>> ELSE stderr
    /\ files' = IF BitAnd(what, FILES) # 0 THEN <<>> ELSE files
    /\ exc' = NoExc
    /\ Called("reset", what)
    /\ UNCHANGED <<fs, tmpVars>>

\* set_cmd that also puts the expected code, stdout and stderr back to
\* their defaults
set_cmd_resets_expected(tokens) ==
    /\ cmd' = tokens
    /\ code' = 0
    /\ stdout' = <<>>
    /\ stderr' = <<>>
    /\ exc' = NoExc
    /\ Called("set_cmd", tokens)
    /\ UNCHANGED <<stdin, files, fs, tmpVars>>

set_cmd(tokens) ==
    /\ cmd' = tokens
    /\ exc' = NoExc
    /\ Called("set_cmd", tokens)
    /\ UNCHANGED <<stdin, code, stdout, stderr, files, fs, tmpVars>>

cmd_append(tokens) ==
    /\ cmd' = cmd \o tokens
    /\ exc' = NoExc
    /\ Called("cmd_append", tokens)
    /\ UNCHANGED <<stdin, code, stdout, stderr, files, fs, tmpVars>>

\* list.pop(i): [err, list]
ListPop(l, i) ==
    LET n == Len(l)
        k == IF i < 0 THEN i + n ELSE i
    IN  IF k < 0 \/ k >= n THEN [err |-> "IndexError", list |-> l]
        ELSE [err |-> "none", list |-> RemoveAt(l, k + 1)]

\* index is <<>> (None) or <<i>>; "if index:" is false for None and for 0
cmd_pop(index) ==
    LET r == IF index # <<>> /\ index[1] # 0
             THEN ListPop(cmd, index[1])
             ELSE ListPop(cmd, -1)
    IN  /\ cmd' = r.list
        /\ exc' = IF r.err = "none" THEN NoExc ELSE Raise(r.err)
        /\ Called("cmd_pop", index)
        /\ UNCHANGED <<stdin, code, stdout, stderr, files, fs, tmpVars>>

\* list.insert(i, x): the index is clamped, never rejected
ListInsert(l, i, x) ==
    LET n == Len(l)
        k == IF i < 0 THEN (IF i + n < 0 THEN 0 ELSE i + n)
             ELSE (IF i > n THEN n ELSE i)
    IN  InsertAt(l, k + 1, x)

cmd_insert(index, newarg) ==
    /\ cmd' = ListInsert(cmd, index, newarg)
    /\ exc' = NoExc
    /\ Called("cmd_insert", <<index, newarg>>)
    /\ UNCHANGED <<stdin, code, stdout, stderr, files, fs, tmpVars>>

\* Faulty variant of ListSetItem: an index out of range is clamped to the
\* nearest token instead of being rejected
ListSetItemClamped(l, i, x) ==
    LET n == Len(l)
        k == IF i < 0 THEN i + n ELSE i
        c == IF k < 0 THEN 0 ELSE IF k >= n THEN n - 1 ELSE k
    IN  IF n = 0 THEN [err |-> "IndexError", list |-> l]
        ELSE [err |-> "none", list |-> [l EXCEPT ![c + 1] = x]]

\* l[i] = x: [err, list]
ListSetItem(l, i, x) ==
    LET n == Len(l)
        k == IF i < 0 THEN i + n ELSE i
    IN  IF k < 0 \/ k >= n THEN [err |-> "IndexError", list |-> l]
        ELSE [err |-> "none", list |-> [l EXCEPT ![k + 1] = x]]

cmd_replace(index, newarg) ==
    LET r == ListSetItem(cmd, index, newarg)
    IN  /\ cmd' = r.list
        /\ exc' = IF r.err = "none" THEN NoExc ELSE Raise(r.err)
        /\ Called("cmd_replace", <<index, newarg>>)
        /\ UNCHANGED <<stdin, code, stdout, stderr, files, fs, tmpVars>>

set_stdin(value) ==
    /\ stdin' = PyBytes(Encode(value))
    /\ exc' = NoExc
    /\ Called("set_stdin", value)
    /\ UNCHANGED <<cmd, code, stdout, stderr, files, fs, tmpVars>>

-----------------------------------------------------------------------------
(* TestBench: expectations, file checks and execute *)

\* set_expected whose two-argument shape also clears the two expected
\* fields it was not asked to set
set_expected_clears_others(arg1, arg2, arg3) ==
    /\ IF arg3 = PyNone
       THEN IF BitAnd(arg1, CODE) # 0
            THEN code' = arg2 /\ exc' = NoExc /\ stdout' = <<>> /\ stderr' = <<>>
            ELSE IF BitAnd(arg1, STDOUT) # 0
            THEN stdout' = arg2 /\ exc' = NoExc /\ code' = 0 /\ stderr' = <<>>
            ELSE IF BitAnd(arg1, STDERR) # 0
            THEN stderr' = arg2 /\ exc' = NoExc /\ code' = 0 /\ stdout' = <<>>
            ELSE exc' = Raise("ValueError") /\ UNCHANGED <<code, stdout, stderr>>
       ELSE /\ code' = arg1
            /\ stdout' = arg2
            /\ stderr' = arg3.val
            /\ exc' = NoExc
    /\ Called("set_expected", <<arg1, arg2, arg3>>)
    /\ UNCHANGED <<cmd, stdin, files, fs, tmpVars>>

\* arg3 is PyNone when the call has two arguments
set_expected(arg1, arg2, arg3) ==
    /\ IF arg3 = PyNone
       THEN IF BitAnd(arg1, CODE) # 0
            THEN code' = arg2 /\ exc' = NoExc /\ UNCHANGED <<stdout, stderr>>
            ELSE IF BitAnd(arg1, STDOUT) # 0
            THEN stdout' = arg2 /\ exc' = NoExc /\ UNCHANGED <<code, stderr>>
            ELSE IF BitAnd(arg1, STDERR) # 0
            THEN stderr' = arg2 /\ exc' = NoExc /\ UNCHANGED <<code, stdout>>
            ELSE exc' = Raise("ValueError") /\ UNCHANGED <<code, stdout, stderr>>
       ELSE /\ code' = arg1
            /\ stdout' = arg2
            /\ stderr' = arg3.val
            /\ exc' = NoExc
    /\ Called("set_expected", <<arg1, arg2, arg3>>)
    /\ UNCHANGED <<cmd, stdin, files, fs, tmpVars>>

add_file_check(filename, mode) ==
    /\ IF ~(PyEq(mode, EXISTS) \/ PyEq(mode, NOT_EXISTS)) /\ mode.k # "str"
       THEN exc' = Raise("ValueError") /\ UNCHANGED files
       ELSE files' = Append(files, <<filename, mode>>) /\ exc' = NoExc
    /\ Called("add_file_check", <<filename, mode>>)
    /\ UNCHANGED <<cmd, stdin, code, stdout, stderr, fs, tmpVars>>

Reason(r, actual) == [reason |-> r, actual |-> actual]

\* one iteration of the loop of _file_check: [err, failed], failed holding
\* the entry appended for this pair, if any
CheckOne(f, filename, mode) ==
    IF PyEq(mode, NOT_EXISTS)
    THEN [err |-> "none",
          failed |-> IF exists(f, filename)
                     THEN <<<<filename, Reason("file exists", <<>>)>>>> ELSE <<>>]
    ELSE IF ~exists(f, filename)
    THEN [err |-> "none", failed |-> <<<<filename, Reason("file doesn't exist", <<>>)>>>>]
    ELSE IF mode.k = "str"
    THEN LET r == ReadText(f, filename)
         IN  IF r.err # "none" THEN [err |-> r.err, failed |-> <<>>]
             ELSE [err |-> "none",
                   failed |-> IF r.text # mode.v
                              THEN <<<<filename, Reason("wrong contents", r.text)>>>>
                              ELSE <<>>]
    ELSE [err |-> "none", failed |-> <<>>]

\* Faulty variant of file_check: the loop stops at the first failed pair
RECURSIVE file_check_first_only(_, _, _)
file_check_first_only(f, fl, failed) ==
    IF fl = <<>> \/ failed # <<>> THEN [err |-> "none", failed |-> failed]
    ELSE LET r == CheckOne(f, fl[1][1], fl[1][2])
         IN  IF r.err # "none" THEN [err |-> r.err, failed |-> <<>>]
             ELSE file_check_first_only(f, Tail(fl), failed \o r.failed)

\* _file_check over the pairs fl, failed being the list built so far
RECURSIVE file_check(_, _, _)
file_check(f, fl, failed) ==
    IF fl = <<>> THEN [err |-> "none", failed |-> failed]
    ELSE LET r == CheckOne(f, fl[1][1], fl[1][2])
         IN  IF r.err # "none" THEN [err |-> r.err, failed |-> <<>>]
             ELSE file_check(f, Tail(fl), failed \o r.failed)

\* Faulty variant of TestExperimentFailure: expected and actual exit code
\* are unpacked in the wrong order
TestExperimentFailureSwapped(a1, a2, a3, a4, a5, a6, a7, a8, a9) ==
    [type |-> "TestExperimentFailure",
     cmd |-> a1, stdin |-> a2,
     exp_code |-> a4, act_code |-> a3,
     exp_stdout |-> a5, act_stdout |-> a6,
     exp_stderr |-> a7, act_stderr |-> a8,
     failed_files |-> a9]

TestExperimentFailure(a1, a2, a3, a4, a5, a6, a7, a8, a9) ==
    [type |-> "TestExperimentFailure",
     cmd |-> a1, stdin |-> a2,
     exp_code |-> a3, act_code |-> a4,
     exp_stdout |-> a5, act_stdout |-> a6,
     exp_stderr |-> a7, act_stderr |-> a8,
     failed_files |-> a9]

\* The child process is the environment: whether it can be launched, its
\* exit code, the bytes it writes to stdout and stderr, and the filesystem
\* it leaves behind (fsAfter).
\* execute decoding stdin in place whether or not the experiment fails
execute_decode_always(launch, returncode, out, err, fsAfter) ==
    /\ Called("execute", [launch |-> launch, returncode |-> returncode,
                          out |-> out, err |-> err])
    /\ UNCHANGED <<cmd, code, stdout, stderr, files, tmpVars>>
    /\ IF cmd = <<>>
       THEN exc' = Raise("IndexError") /\ UNCHANGED <<stdin, fs>>
       ELSE IF ~launch
       THEN exc' = Raise("FileNotFoundError") /\ UNCHANGED <<stdin, fs>>
       ELSE /\ fs' = fsAfter
            /\ IF stdin.kind = "str" /\ Truthy(stdin)
               THEN exc' = Raise("TypeError") /\ UNCHANGED stdin
               ELSE IF ~Decode(out).ok \/ ~Decode(err).ok
               THEN exc' = Raise("UnicodeDecodeError") /\ UNCHANGED stdin
               ELSE LET act_stdout == Decode(out).text
                        act_stderr == Decode(err).text
                        fc == file_check(fsAfter, files, <<>>)
                    IN  IF fc.err # "none"
                        THEN exc' = Raise(fc.err) /\ UNCHANGED stdin
                        ELSE IF \/ returncode # code
                                \/ act_stdout # stdout
                                \/ act_stderr # stderr
                                \/ fc.failed # <<>>
                        THEN /\ stdin' = IF Truthy(stdin)
                                         THEN PyStr(Decode(stdin.val).text)
                                         ELSE stdin
                             /\ exc' = TestExperimentFailure(
                                           cmd, stdin', code, returncode,
                                           stdout, act_stdout, stderr, act_stderr,
                                           fc.failed)
                        ELSE /\ exc' = NoExc
                             /\ stdin' = IF Truthy(stdin)
                                         THEN PyStr(Decode(stdin.val).text)
                                         ELSE stdin

execute(launch, returncode, out, err, fsAfter) ==
    /\ Called("execute", [launch |-> launch, returncode |-> returncode,
                          out |-> out, err |-> err])
    /\ UNCHANGED <<cmd, code, stdout, stderr, files, tmpVars>>
    /\ IF cmd = <<>>
       THEN exc' = Raise("IndexError") /\ UNCHANGED <<stdin, fs>>
       ELSE IF ~launch
       THEN exc' = Raise("FileNotFoundError") /\ UNCHANGED <<stdin, fs>>
       ELSE /\ fs' = fsAfter
            /\ IF stdin.kind = "str" /\ Truthy(stdin)
               THEN exc' = Raise("TypeError") /\ UNCHANGED stdin
               ELSE IF ~Decode(out).ok \/ ~Decode(err).ok
               THEN exc' = Raise("UnicodeDecodeError") /\ UNCHANGED stdin
               ELSE LET act_stdout == Decode(out).text
                        act_stderr == Decode(err).text
                        fc == file_check(fsAfter, files, <<>>)
                    IN  IF fc.err # "none"
                        THEN exc' = Raise(fc.err) /\ UNCHANGED stdin
                        ELSE IF \/ returncode # code
                                \/ act_stdout # stdout
                                \/ act_stderr # stderr
                                \/ fc.failed # <<>>
                        THEN /\ stdin' = IF Truthy(stdin)
                                         THEN PyStr(Decode(stdin.val).text)
                                         ELSE stdin
                             /\ exc' = TestExperimentFailure(
                                           cmd, stdin', code, returncode,
                                           stdout, act_stdout, stderr, act_stderr,
                                           fc.failed)
                        ELSE exc' = NoExc /\ UNCHANGED stdin

-----------------------------------------------------------------------------
(* TMPFileManager *)

\* os.mkdir(p): [err, fs]
mkdir(f, p) ==
    IF LExists(f, p) THEN [err |-> "FileExistsError", fs |-> f]
    ELSE IF ~Reachable(f, p)
    THEN [err |-> IF f[Parent(p)].t = "none" THEN "FileNotFoundError"
                  ELSE "NotADirectoryError", fs |-> f]
    ELSE [err |-> "none", fs |-> [f EXCEPT ![p] = Dir]]

\* os.makedirs(p, 0o755): the missing parent directory is created first
makedirs(f, p) ==
    IF Parent(p) # "/" /\ ~exists(f, Parent(p))
    THEN LET r == mkdir(f, Parent(p))
         IN  IF r.err # "none" THEN r ELSE mkdir(r.fs, p)
    ELSE mkdir(f, p)

\* print(*contents, file=f): the arguments joined by spaces, then a newline
RECURSIVE JoinSpace(_)
JoinSpace(contents) ==
    IF Len(contents) = 1 THEN contents[1]
    ELSE contents[1] \o <<32>> \o JoinSpace(Tail(contents))

Printed(contents) ==
    IF contents = <<>> THEN <<>> ELSE Encode(JoinSpace(contents) \o <<LF>>)

\* open(p, 'x') and the writes: [err, fs]
CreateFile(f, p, contents) ==
    IF LExists(f, p) THEN [err |-> "FileExistsError", fs |-> f]
    ELSE IF ~Reachable(f, p)
    THEN [err |-> IF f[Parent(p)].t = "none" THEN "FileNotFoundError"
                  ELSE "NotADirectoryError", fs |-> f]
    ELSE [err |-> "none", fs |-> [f EXCEPT ![p] = File(Printed(contents))]]

\* open(p, 'w') and the writes, p existing: the file a link names is written
OverwriteFile(f, p, contents) ==
    LET q == realpath(f, p)
    IN  IF f[q].t = "dir" THEN [err |-> "IsADirectoryError", fs |-> f]
        ELSE [err |-> "none", fs |-> [f EXCEPT ![q] = File(Printed(contents))]]

\* os.symlink(to, p): [err, fs]
symlink(f, to, p) ==
    IF LExists(f, p) THEN [err |-> "FileExistsError", fs |-> f]
    ELSE IF ~Reachable(f, p)
    THEN [err |-> IF f[Parent(p)].t = "none" THEN "FileNotFoundError"
                  ELSE "NotADirectoryError", fs |-> f]
    ELSE [err |-> "none", fs |-> [f EXCEPT ![p] = Link(to)]]

InScope == phase = "with"

Did(r) == exc' = IF r.err = "none" THEN NoExc ELSE Raise(r.err)

\* hist: onlyAdds = no call but add_directory / add_file / add_symlink was
\* made in the scope, so every tracked path is one the manager created;
\* fsAtExit = the filesystem as __exit__ found it
NoteOther == hist' = [hist EXCEPT !.onlyAdds = FALSE]

add_directory(directory) ==
    /\ InScope
    /\ Called("add_directory", directory)
    /\ UNCHANGED <<benchVars, own_files, phase, idx>>
    /\ IF exists(fs, directory)
       THEN exc' = Raise("ValueError") /\ UNCHANGED <<fs, tmp_files, hist>>
       ELSE LET r == makedirs(fs, directory)
            IN  /\ fs' = r.fs
                /\ Did(r)
                /\ tmp_files' = IF r.err = "none" THEN Append(tmp_files, directory)
                                ELSE tmp_files
                /\ UNCHANGED hist

register_directory(directory) ==
    /\ InScope
    /\ Called("register_directory", directory)
    /\ UNCHANGED <<benchVars, fs, own_files, phase, idx>>
    /\ NoteOther
    /\ IF ~exists(fs, directory) \/ ~isdir(fs, directory)
       THEN exc' = Raise("ValueError") /\ UNCHANGED tmp_files
       ELSE exc' = NoExc /\ tmp_files' = Append(tmp_files, directory)

add_file(filename, contents) ==
    /\ InScope
    /\ Called("add_file", <<filename, contents>>)
    /\ UNCHANGED <<benchVars, phase, idx>>
    /\ IF exists(fs, filename)
       THEN exc' = Raise("ValueError") /\ UNCHANGED <<fs, tmp_files, own_files, hist>>
       ELSE LET r == CreateFile(fs, filename, contents)
            IN  /\ fs' = r.fs
                /\ Did(r)
                /\ tmp_files' = IF r.err = "none" THEN Append(tmp_files, filename)
                                ELSE tmp_files
                /\ own_files' = IF r.err = "none" THEN Append(own_files, filename)
                                ELSE own_files
                /\ UNCHANGED hist

InList(x, l) == \E i \in 1..Len(l) : l[i] = x

\* modify_file accepting every tracked path instead of every own file
modify_file_any_tracked(filename, contents) ==
    /\ InScope
    /\ Called("modify_file", <<filename, contents>>)
    /\ UNCHANGED <<benchVars, tmp_files, own_files, phase, idx>>
    /\ NoteOther
    /\ IF ~InList(filename, tmp_files)
       THEN exc' = RaiseMsg("ValueError", "can't overwrite unmanaged file") /\ UNCHANGED fs
       ELSE IF ~exists(fs, filename)
       THEN exc' = RaiseMsg("ValueError", "file doesn't exist") /\ UNCHANGED fs
       ELSE LET r == OverwriteFile(fs, filename, contents)
            IN  fs' = r.fs /\ Did(r)

modify_file(filename, contents) ==
    /\ InScope
    /\ Called("modify_file", <<filename, contents>>)
    /\ UNCHANGED <<benchVars, tmp_files, own_files, phase, idx>>
    /\ NoteOther
    /\ IF ~InList(filename, own_files)
       THEN exc' = RaiseMsg("ValueError", "can't overwrite unmanaged file") /\ UNCHANGED fs
       ELSE IF ~exists(fs, filename)
       THEN exc' = RaiseMsg("ValueError", "file doesn't exist") /\ UNCHANGED fs
       ELSE LET r == OverwriteFile(fs, filename, contents)
            IN  fs' = r.fs /\ Did(r)

register_file(filename) ==
    /\ InScope
    /\ Called("register_file", filename)
    /\ UNCHANGED <<benchVars, fs, own_files, phase, idx>>
    /\ NoteOther
    /\ IF ~exists(fs, filename) \/ ~isfile(fs, filename)
       THEN exc' = Raise("ValueError") /\ UNCHANGED tmp_files
       ELSE exc' = NoExc /\ tmp_files' = Append(tmp_files, filename)

add_symlink(link, target) ==
    /\ InScope
    /\ Called("add_symlink", <<link, target>>)
    /\ UNCHANGED <<benchVars, own_files, phase, idx>>
    /\ IF exists(fs, link)
       THEN exc' = Raise("ValueError") /\ UNCHANGED <<fs, tmp_files, hist>>
       ELSE LET r == symlink(fs, realpath(fs, target), link)
            IN  /\ fs' = r.fs
                /\ Did(r)
                /\ tmp_files' = IF r.err = "none" THEN Append(tmp_files, link)
                                ELSE tmp_files
                /\ UNCHANGED hist

register_symlink(link) ==
    /\ InScope
    /\ Called("register_symlink", link)
    /\ UNCHANGED <<benchVars, fs, own_files, phase, idx>>
    /\ NoteOther
    /\ IF ~exists(fs, link) \/ ~islink(fs, link)
       THEN exc' = Raise("ValueError") /\ UNCHANGED tmp_files
       ELSE exc' = NoExc /\ tmp_files' = Append(tmp_files, link)

\* unmanage_files forgetting all but the first tracked entry
unmanage_files_keep_first ==
    /\ InScope
    /\ Called("unmanage_files", <<>>)
    /\ tmp_files' = IF tmp_files = <<>> THEN <<>> ELSE <<tmp_files[1]>>
    /\ exc' = NoExc
    /\ NoteOther
    /\ UNCHANGED <<benchVars, fs, own_files, phase, idx>>

unmanage_files ==
    /\ InScope
    /\ Called("unmanage_files", <<>>)
    /\ tmp_files' = <<>>
    /\ exc' = NoExc
    /\ NoteOther
    /\ UNCHANGED <<benchVars, fs, own_files, phase, idx>>

\* The caller deletes an entry itself inside the with block
caller_remove(path) ==
    /\ InScope
    /\ LExists(fs, path)
    /\ LET r == IF fs[path].t = "dir" THEN rmdir(fs, path) ELSE remove(fs, path)
       IN  /\ r.err = "none"
           /\ fs' = r.fs
    /\ Called("caller_remove", path)
    /\ exc' = NoExc
    /\ NoteOther
    /\ UNCHANGED <<benchVars, tmp_files, own_files, phase, idx>>

\* The with block ends and __exit__ starts its loop over reversed(self.files)
exit_begin ==
    /\ InScope
    /\ phase' = IF tmp_files = <<>> THEN "done" ELSE "exit"
    /\ idx' = Len(tmp_files)
    /\ Called("__exit__", [i |-> 0, f |-> "", did |-> "begin"])
    /\ exc' = NoExc
    /\ hist' = [hist EXCEPT !.fsAtExit = fs]
    /\ UNCHANGED <<benchVars, fs, tmp_files, own_files>>

\* __exit__ with every failed deletion swallowed and the loop carried on
exit_step_ignore_errors ==
    /\ phase = "exit"
    /\ LET f == tmp_files[idx]
           r == IF ~exists(fs, f) THEN [err |-> "none", fs |-> fs]
                ELSE IF isdir(fs, f) THEN rmdir(fs, f)
                ELSE remove(fs, f)
           did == IF ~exists(fs, f) THEN "skipped"
                  ELSE IF isdir(fs, f) THEN "rmdir" ELSE "remove"
       IN  /\ fs' = r.fs
           /\ exc' = NoExc
           /\ Called("__exit__", [i |-> idx, f |-> f, did |-> did])
           /\ idx' = idx - 1
           /\ phase' = IF idx = 1 THEN "done" ELSE "exit"
    /\ UNCHANGED <<benchVars, tmp_files, own_files, hist>>

\* One iteration of the loop of __exit__; an exception of rmdir or remove
\* leaves the loop and __exit__
exit_step ==
    /\ phase = "exit"
    /\ LET f == tmp_files[idx]
           r == IF ~exists(fs, f) THEN [err |-> "none", fs |-> fs]
                ELSE IF isdir(fs, f) THEN rmdir(fs, f)
                ELSE remove(fs, f)
           did == IF ~exists(fs, f) THEN "skipped"
                  ELSE IF isdir(fs, f) THEN "rmdir" ELSE "remove"
       IN  /\ fs' = r.fs
           /\ Did(r)
           /\ Called("__exit__", [i |-> idx, f |-> f, did |-> did])
           /\ idx' = idx - 1
           /\ phase' = IF r.err # "none" \/ idx = 1 THEN "done" ELSE "exit"
    /\ UNCHANGED <<benchVars, tmp_files, own_files, hist>>

-----------------------------------------------------------------------------
(* Initial state: a TestBench just constructed, a TMPFileManager just       *)
(* entered, in a working directory holding f0.                              *)

InitWith(f0) ==
    /\ cmd = <<>>
    /\ stdin = PyNone
    /\ code = 0
    /\ stdout = <<>>
    /\ stderr = <<>>
    /\ files = <<>>
    /\ fs = f0
    /\ tmp_files = <<>>
    /\ own_files = <<>>
    /\ phase = "with"
    /\ idx = 0
    /\ hist = [onlyAdds |-> TRUE, fsAtExit |-> EmptyFs]
    /\ last = [op |-> "__init__", arg |-> <<>>]
    /\ exc = NoExc

Init == InitWith(EmptyFs)

-----------------------------------------------------------------------------
(* Spec: the engine with every operation, on small inputs *)

Tokens == {"a"}
Texts == {<<>>, <<233>>}
StdinTexts == {<<233>>}
Codes == {0, 1}
Masks == {CMD, STDIN, CODE, STDOUT, STDERR, FILES, STDIN + STDOUT + STDERR, ALL}
Selectors == {0, CMD, CODE, STDOUT, STDERR, CODE + STDOUT, STDOUT + STDERR}
ChildOut == {<<>>, <<195, 169>>, <<255>>}
ChildErr == {<<>>}
CheckModes == {EXISTS, NOT_EXISTS, ModeInt(1), ModeInt(2)}
WithFile == [EmptyFs EXCEPT !["d"] = Dir, !["d/x"] = File(<<>>)]
ChildFs == {EmptyFs, WithFile}

Next ==
    \/ \E what \in Masks : reset(what)
    \/ \E t \in SeqsUpTo(Tokens, MaxCmd) : set_cmd(t)
    \/ \E t \in Tokens : Len(cmd) < MaxCmd /\ cmd_append(<<t>>)
    \/ \E i \in {<<>>, <<0>>, <<-1>>, <<1>>} : cmd_pop(i)
    \/ \E i \in -1..1, t \in Tokens : Len(cmd) < MaxCmd /\ cmd_insert(i, t)
    \/ \E i \in -1..1, t \in Tokens : cmd_replace(i, t)
    \/ \E v \in StdinTexts : set_stdin(v)
    \/ \E sel \in Selectors :
          \E v \in (IF BitAnd(sel, CODE) # 0 THEN Codes ELSE Texts) :
             set_expected(sel, v, PyNone)
    \/ \E c \in Codes, o \in Texts, e \in Texts : set_expected(c, o, PyStr(e))
    \/ \E m \in CheckModes :
          (IF m = ModeInt(2) THEN TRUE ELSE Len(files) < MaxChecks) /\ add_file_check("d/x", m)
    \/ \E launch \in BOOLEAN, rc \in Codes, o \in ChildOut, e \in ChildErr, f \in ChildFs :
          execute(launch, rc, o, e, f)

Spec == Init /\ [][Next]_vars

-----------------------------------------------------------------------------
(* SpecCmd: the positional command edits, on commands of up to MaxCmdEdit   *)
(* tokens                                                                   *)

EditTokens == {"a", "b"}
EditIndexes == (0 - MaxCmdEdit - 1)..(MaxCmdEdit + 1)

NextCmd ==
    \/ \E t \in EditTokens : Len(cmd) < MaxCmdEdit /\ cmd_append(<<t>>)
    \/ \E i \in {<<>>} \cup {<<k>> : k \in EditIndexes} : cmd_pop(i)
    \/ \E i \in EditIndexes, t \in EditTokens : Len(cmd) < MaxCmdEdit /\ cmd_insert(i, t)
    \/ \E i \in EditIndexes, t \in EditTokens : cmd_replace(i, t)

SpecCmd == Init /\ [][NextCmd]_vars

-----------------------------------------------------------------------------
(* SpecReset: every reset mask, after any of the setters *)

NextReset ==
    \/ \E what \in 0..ALL : reset(what)
    \/ \E t \in Tokens : set_cmd(<<t>>)
    \/ \E v \in StdinTexts : set_stdin(v)
    \/ set_expected(CODE, 1, PyNone)
    \/ \E sel \in {STDOUT, STDERR} : set_expected(sel, <<233>>, PyNone)
    \/ Len(files) < MaxChecks /\ add_file_check("d/x", EXISTS)

SpecReset == Init /\ [][NextReset]_vars

-----------------------------------------------------------------------------
(* SpecFiles: the file check of execute, over files of several contents,   *)
(* a directory and symbolic links                                           *)

FcPaths == {"d/x", "l"}
FcModes == {EXISTS, NOT_EXISTS, ModeStr(<<>>), ModeStr(<<LF>>)}
InD(node) == [EmptyFs EXCEPT !["d"] = Dir, !["d/x"] = node]
FcFs == {EmptyFs,
         InD(File(<<>>)), InD(File(<<CR>>)), InD(File(<<LF>>)), InD(Dir),
         [InD(File(<<LF>>)) EXCEPT !["l"] = Link("d/x")],
         [InD(Absent) EXCEPT !["l"] = Link("d/x")]}

NextFiles ==
    \/ \E t \in Tokens : set_cmd(<<t>>)
    \/ \E q \in FcPaths, m \in FcModes : Len(files) < MaxFileChecks /\ add_file_check(q, m)
    \/ reset(FILES)
    \/ \E f \in FcFs : execute(TRUE, 0, <<>>, <<>>, f)

SpecFiles == Init /\ [][NextFiles]_vars

-----------------------------------------------------------------------------
(* SpecTMP: one with-block of a TMPFileManager, from entry to the end of   *)
(* __exit__, in a working directory that may already hold entries           *)

TmpInitFs == {EmptyFs, InD(File(<<>>))}
Contents == {<<>>, <<<<120>>>>}
CanTrack == Len(tmp_files) < MaxTracked

NextTMP ==
    \/ \E q \in {"d", "d/x"} : CanTrack /\ add_directory(q)
    \/ CanTrack /\ register_directory("d")
    \/ \E c \in Contents : CanTrack /\ Len(own_files) < MaxTracked /\ add_file("d/x", c)
    \/ \E q \in {"d/x", "l"} : modify_file(q, <<<<120>>>>)
    \/ \E q \in {"d/x", "l"} : CanTrack /\ register_file(q)
    \/ \E t \in {"d", "d/x"} : CanTrack /\ add_symlink("l", t)
    \/ \E q \in {"d/x", "l"} : CanTrack /\ register_symlink(q)
    \/ unmanage_files
    \/ \E q \in Paths : caller_remove(q)
    \/ exit_begin
    \/ exit_step

SpecTMP == (\E f0 \in TmpInitFs : InitWith(f0)) /\ [][NextTMP]_vars

-----------------------------------------------------------------------------
(* Properties of execute (Spec) *)

Ran == last.op = "execute" /\ cmd # <<>> /\ last.arg.launch

\* C1: whenever a child ran, execute returns normally iff the exit code,
\* stdout and stderr equal the expected ones and no file check failed, and
\* raises TestExperimentFailure in every other case.  (Stated for children
\* whose output is valid UTF-8 and file checks that can be read.)
C1_ExecuteSucceedsIffAllMatch ==
    (/\ Ran
     /\ Decode(last.arg.out).ok
     /\ Decode(last.arg.err).ok
     /\ file_check(fs, files, <<>>).err = "none")
    => LET allMatch == /\ last.arg.returncode = code
                       /\ Decode(last.arg.out).text = stdout
                       /\ Decode(last.arg.err).text = stderr
                       /\ file_check(fs, files, <<>>).failed = <<>>
       IN  IF allMatch THEN exc.type = "none"
           ELSE exc.type = "TestExperimentFailure"

\* C2: a TestExperimentFailure raised by execute carries the exit code and
\* output the child really produced, and the expected values that were
\* configured when execute was called.
C2_FailureCarriesActualAndExpected ==
    [][(last'.op = "execute" /\ exc'.type = "TestExperimentFailure")
       => /\ exc'.act_code = last'.arg.returncode
          /\ Encode(exc'.act_stdout) = last'.arg.out
          /\ Encode(exc'.act_stderr) = last'.arg.err
          /\ exc'.exp_code = code
          /\ exc'.exp_stdout = stdout
          /\ exc'.exp_stderr = stderr]_vars

C2_Witness ==
    /\ last.op = "execute"
    /\ exc.type = "TestExperimentFailure"
    /\ exc.exp_code = 0 /\ exc.act_code = 1
    /\ exc.exp_stdout = <<>> /\ exc.act_stdout = <<233>>
    /\ exc.exp_stderr = <<233>> /\ exc.act_stderr = <<>>

-----------------------------------------------------------------------------
(* Properties of reset (SpecReset) *)

AllSelectors == {CMD, STDIN, CODE, STDOUT, STDERR, FILES}

RECURSIVE OrOf(_)
OrOf(S) == IF S = {} THEN 0 ELSE LET x == CHOOSE y \in S : TRUE IN x + OrOf(S \ {x})

\* C5: for every set S of selectors, reset(OR of S) puts each selected field
\* at its zero value and leaves every other field as it was; reset(ALL)
\* zeroes all six.
C5_ResetSelectedOnly ==
    [][\A S \in SUBSET AllSelectors :
          (last'.op = "reset" /\ last'.arg = OrOf(S))
          => /\ cmd' = IF CMD \in S THEN <<>> ELSE cmd
             /\ stdin' = IF STDIN \in S THEN PyNone ELSE stdin
             /\ code' = IF CODE \in S THEN 0 ELSE code
             /\ stdout' = IF STDOUT \in S THEN <<>> ELSE stdout
             /\ stderr' = IF STDERR \in S THEN <<>> ELSE stderr
             /\ files' = IF FILES \in S THEN <<>> ELSE files
             /\ exc'.type = "none"]_vars

\* reset(CODE) has acted on a spec whose other five fields are not at zero
C5_Witness ==
    /\ last.op = "reset" /\ last.arg = CODE
    /\ code = 0
    /\ cmd # <<>> /\ stdin # PyNone /\ stdout # <<>> /\ stderr # <<>> /\ files # <<>>

-----------------------------------------------------------------------------
(* Properties of the positional command edits (SpecCmd) *)

\* the position, counted from 1, that index i names in a list of n tokens
PositionOf(i, n) == IF i < 0 THEN n + i + 1 ELSE i + 1

\* C9: on a command of n >= 1 tokens, cmd_pop(i) with i in -n..n-1 removes
\* exactly the token at position i (negative i counted from the end) and
\* keeps the others in order; cmd_pop() removes the last token.
C9_PopRemovesAddressedToken ==
    [][(/\ last'.op = "cmd_pop"
        /\ Len(cmd) >= 1
        /\ (last'.arg # <<>> => last'.arg[1] \in (0 - Len(cmd))..(Len(cmd) - 1)))
       => /\ exc'.type = "none"
          /\ cmd' = RemoveAt(cmd, IF last'.arg = <<>> THEN Len(cmd)
                                  ELSE PositionOf(last'.arg[1], Len(cmd)))]_vars

InsertOutOfRange(i, n) == i < 0 - n \/ i > n
ItemOutOfRange(i, n) == i < 0 - n \/ i > n - 1

\* C10 as stated: every positional edit with an index out of range raises
\* IndexError and leaves the command unchanged; so does cmd_pop on an empty
\* command.
C10_OutOfRangeAlwaysFails ==
    [][(\/ last'.op = "cmd_insert" /\ InsertOutOfRange(last'.arg[1], Len(cmd))
        \/ last'.op = "cmd_replace" /\ ItemOutOfRange(last'.arg[1], Len(cmd))
        \/ last'.op = "cmd_pop" /\ cmd = <<>>
        \/ last'.op = "cmd_pop" /\ last'.arg # <<>>
              /\ ItemOutOfRange(last'.arg[1], Len(cmd)))
       => exc'.type = "IndexError" /\ cmd' = cmd]_vars

\* C10 amended: cmd_replace and cmd_pop with an index out of -n..n-1, and
\* cmd_pop on an empty command, raise IndexError and leave the command
\* unchanged; cmd_insert never fails: an index above n appends the token
\* and an index below -n puts it in front.
C10_ReplaceAndPopFailInsertClamps ==
    [][/\ (\/ last'.op = "cmd_replace" /\ ItemOutOfRange(last'.arg[1], Len(cmd))
           \/ last'.op = "cmd_pop" /\ cmd = <<>>
           \/ last'.op = "cmd_pop" /\ last'.arg # <<>>
                 /\ ItemOutOfRange(last'.arg[1], Len(cmd)))
          => exc'.type = "IndexError" /\ cmd' = cmd
       /\ (last'.op = "cmd_insert" /\ last'.arg[1] > Len(cmd))
          => exc'.type = "none" /\ cmd' = Append(cmd, last'.arg[2])
       /\ (last'.op = "cmd_insert" /\ last'.arg[1] < 0 - Len(cmd))
          => exc'.type = "none" /\ cmd' = <<last'.arg[2]>> \o cmd]_vars

\* cmd_replace with an index past the end of a two-token command has failed
C10_Witness ==
    /\ last.op = "cmd_replace"
    /\ Len(cmd) = 2
    /\ last.arg[1] = 2
    /\ exc.type = "IndexError"

-----------------------------------------------------------------------------
(* Properties of the file check (SpecFiles) *)

\* execute got as far as comparing: it returned or raised TestExperimentFailure
Judged == last.op = "execute" /\ exc.type \in {"none", "TestExperimentFailure"}

FailedFiles == IF exc.type = "TestExperimentFailure" THEN exc.failed_files ELSE <<>>

\* the text held by the file at p, exactly as stored
StoredText(f, p) == Decode(Stat(f, p).data).text

\* C3: the verdict on one pair as the claim states it
ShouldFail(f, p, mode) ==
    IF mode.k = "bool" THEN (IF mode.v THEN ~exists(f, p) ELSE exists(f, p))
    ELSE IF ~exists(f, p) THEN TRUE
    ELSE StoredText(f, p) # mode.v

ShouldReport(f, p, mode) ==
    IF mode.k = "bool" /\ ~mode.v THEN <<p, Reason("file exists", <<>>)>>
    ELSE IF ~exists(f, p) THEN <<p, Reason("file doesn't exist", <<>>)>>
    ELSE <<p, Reason("wrong contents", StoredText(f, p))>>

\* C3: each pair is judged on its own against the filesystem the child
\* left: NOT_EXISTS fails iff the path exists, EXISTS fails iff it does not,
\* a string fails with "file doesn't exist" iff the path is absent and
\* otherwise with the actual contents iff they differ from the string.
C3_EachPairJudgedExactly ==
    Judged =>
        {FailedFiles[i] : i \in DOMAIN FailedFiles}
        = {ShouldReport(fs, files[i][1], files[i][2]) :
              i \in {j \in DOMAIN files : ShouldFail(fs, files[j][1], files[j][2])}}

\* the pairs of files, by index, that the loop body of _file_check fails
Failing == {i \in DOMAIN files : CheckOne(fs, files[i][1], files[i][2]).failed # <<>>}

\* C4: the failed-file list holds exactly one entry per failing pair, in
\* registration order, with nothing dropped after the first failure;
\* a pair registered twice is counted twice (EXISTS registered twice gives
\* no entry when the file exists and two entries when it is missing).
C4_AllFailuresCollectedInOrder ==
    Judged =>
        /\ Len(FailedFiles) = Cardinality(Failing)
        /\ \A i \in Failing :
              FailedFiles[Cardinality({j \in Failing : j <= i})]
              = CheckOne(fs, files[i][1], files[i][2]).failed[1]
        /\ \A q \in FcPaths :
              files = <<<<q, EXISTS>>, <<q, EXISTS>>>>
              => Len(FailedFiles) = IF exists(fs, q) THEN 0 ELSE 2

\* EXISTS was registered twice for a missing file and reported twice
C4_Witness ==
    /\ Judged
    /\ files = <<<<"d/x", EXISTS>>, <<"d/x", EXISTS>>>>
    /\ ~exists(fs, "d/x")
    /\ Len(FailedFiles) = 2

-----------------------------------------------------------------------------
(* Properties of __exit__ (SpecTMP) *)

Tracked == {tmp_files[i] : i \in DOMAIN tmp_files}

\* C6: when only add_directory, add_file and add_symlink were called in the
\* with block, nothing the manager created and tracked exists after
\* __exit__.
C6_CreatedEntriesGoneAfterExit ==
    (phase = "done" /\ hist.onlyAdds) => \A q \in Tracked : ~LExists(fs, q)

\* C7: entries are deleted in reverse registration order: when __exit__
\* deletes an entry, every entry registered after it that existed when
\* __exit__ started has been deleted already.
C7_LaterRegisteredDeletedFirst ==
    [][(/\ last'.op = "__exit__"
        /\ last'.arg.did \in {"rmdir", "remove"}
        /\ exc'.type = "none")
       => \A j \in (last'.arg.i + 1)..Len(tmp_files) :
             exists(hist.fsAtExit, tmp_files[j]) => ~LExists(fs, tmp_files[j])]_vars

\* C8: when a tracked entry was removed before __exit__, __exit__ raises no
\* error for it and still deletes every other tracked entry that exists.
C8_RemovedEntrySkippedOthersDeleted ==
    (/\ phase = "done"
     /\ \E q \in Tracked : ~LExists(hist.fsAtExit, q))
    => /\ exc.type # "none" => LExists(hist.fsAtExit, last.arg.f)
       /\ \A q \in Tracked : exists(hist.fsAtExit, q) => ~LExists(fs, q)

-----------------------------------------------------------------------------
(* Properties of set_expected (Spec) *)

\* a call of set_expected with two arguments (selector, value)
SelectorShape == last'.op = "set_expected" /\ last'.arg[3] = PyNone

\* C11: set_expected(selector, value) raises ValueError and changes no field
\* whenever the selector is not exactly CODE, STDOUT or STDERR.
C11_BadSelectorRejected ==
    [][(SelectorShape /\ last'.arg[1] \notin {CODE, STDOUT, STDERR})
       => (exc'.type = "ValueError" /\ UNCHANGED benchVars)]_vars

-----------------------------------------------------------------------------
(* Properties of modify_file (SpecTMP) *)

\* own_files holds exactly the paths add_file created in this with block:
\* it grows by the path of each add_file that returns, and by nothing else
OwnIsCreatedByAddFile ==
    own_files' = IF last'.op = "add_file" /\ exc'.type = "none"
                 THEN Append(own_files, last'.arg[1])
                 ELSE own_files

Unmanaged == RaiseMsg("ValueError", "can't overwrite unmanaged file")
Vanished == RaiseMsg("ValueError", "file doesn't exist")
Overwritten(p, contents) ==
    /\ exc' = NoExc
    /\ fs' = [fs EXCEPT ![realpath(fs, p)] = File(Printed(contents))]
    /\ UNCHANGED tmp_files

\* C12 as stated: modify_file(path) raises the "unmanaged file" error when
\* path was not created by add_file in this with block, raises "doesn't
\* exist" when it was but is gone, and otherwise overwrites the contents;
\* both failures leave the filesystem and the tracked list unchanged.
C12_ModifyOwnExistingElseFail ==
    [][/\ OwnIsCreatedByAddFile
       /\ last'.op = "modify_file" =>
             LET p == last'.arg[1]
             IN  IF ~InList(p, own_files)
                 THEN exc' = Unmanaged /\ UNCHANGED <<fs, tmp_files>>
                 ELSE IF ~exists(fs, p)
                 THEN exc' = Vanished /\ UNCHANGED <<fs, tmp_files>>
                 ELSE Overwritten(p, last'.arg[2])]_vars

\* C12 amended: as above, but when a directory stands at a path add_file
\* created, modify_file raises IsADirectoryError and changes nothing.
C12_ModifyOwnFileElseFail ==
    [][/\ OwnIsCreatedByAddFile
       /\ last'.op = "modify_file" =>
             LET p == last'.arg[1]
             IN  IF ~InList(p, own_files)
                 THEN exc' = Unmanaged /\ UNCHANGED <<fs, tmp_files>>
                 ELSE IF ~exists(fs, p)
                 THEN exc' = Vanished /\ UNCHANGED <<fs, tmp_files>>
                 ELSE IF isdir(fs, p)
                 THEN exc' = Raise("IsADirectoryError") /\ UNCHANGED <<fs, tmp_files>>
                 ELSE Overwritten(p, last'.arg[2])]_vars

\* a file add_file created empty was overwritten by modify_file
C12_Witness ==
    /\ last.op = "modify_file"
    /\ exc = NoExc
    /\ InList(last.arg[1], own_files)
    /\ Stat(fs, last.arg[1]) = File(Printed(last.arg[2]))

-----------------------------------------------------------------------------
(* Properties of unmanage_files (SpecTMP) *)

RegisterOps ==
    {"add_directory", "register_directory", "register_file", "register_symlink"}
RegisterPairOps == {"add_file", "add_symlink"}

\* the tracked list after a step that is not unmanage_files: unchanged, or
\* longer by the path the step's add_* / register_* call was given
GrowsByRegistration ==
    IF last'.op \in RegisterOps
    THEN tmp_files' \in {tmp_files, Append(tmp_files, last'.arg)}
    ELSE IF last'.op \in RegisterPairOps
    THEN tmp_files' \in {tmp_files, Append(tmp_files, last'.arg[1])}
    ELSE tmp_files' = tmp_files

\* C13: unmanage_files empties the tracked list and leaves the filesystem
\* alone; afterwards the list holds only what was registered since, and
\* __exit__ deletes nothing but entries of that list, so nothing tracked
\* before the call (and not registered again) is deleted.
C13_UnmanagedEntriesSurviveExit ==
    [][/\ last'.op = "unmanage_files" => (tmp_files' = <<>> /\ fs' = fs)
       /\ last'.op # "unmanage_files" => GrowsByRegistration
       /\ last'.op = "__exit__" =>
             \A q \in Paths : fs'[q] # fs[q] => (q \in Tracked /\ fs'[q] = Absent)]_vars

\* __exit__ finished: the symlink the manager created before unmanage_files
\* is still there, untracked, and an entry registered afterwards was deleted
C13_Witness ==
    /\ phase = "done"
    /\ exc = NoExc
    /\ fs["l"].t = "link"
    /\ "l" \notin Tracked
    /\ \E r \in Tracked : LExists(hist.fsAtExit, r) /\ ~LExists(fs, r)

-----------------------------------------------------------------------------
(* Properties of add_directory, add_file and add_symlink (SpecTMP) *)

AddOps == {"add_directory", "add_file", "add_symlink"}
AddedPath == IF last'.op = "add_directory" THEN last'.arg ELSE last'.arg[1]

\* C14: add_directory, add_file and add_symlink raise the "already exists"
\* ValueError whenever a file, a directory or a symlink (dangling or not) is
\* at the path, changing neither the filesystem nor the tracked list nor the
\* own files; when they return, the path was appended once to the list.
C14_AddFailsOnAnyExistingEntry ==
    [][last'.op \in AddOps =>
          IF LExists(fs, AddedPath)
          THEN exc' = Raise("ValueError") /\ UNCHANGED <<fs, tmp_files, own_files>>
          ELSE exc' = NoExc => tmp_files' = Append(tmp_files, AddedPath)]_vars

-----------------------------------------------------------------------------
(* Properties of register_directory, register_file and register_symlink    *)
(* (SpecTMP)                                                                *)

TrackOps == {"register_directory", "register_file", "register_symlink"}

\* something is at p and it is of the kind the call asks for
OfKind(op, f, p) ==
    /\ LExists(f, p)
    /\ IF op = "register_directory" THEN isdir(f, p)
       ELSE IF op = "register_file" THEN isfile(f, p)
       ELSE islink(f, p)

\* C15: register_directory, register_file and register_symlink raise
\* ValueError iff nothing is at the path or what is there is not of the
\* kind asked for; otherwise they append the path to the tracked list and
\* change neither the filesystem nor the own files. register_symlink
\* accepts every path at which a symlink is.
C15_RegisterIffOfKind ==
    [][last'.op \in TrackOps =>
          IF OfKind(last'.op, fs, last'.arg)
          THEN /\ exc' = NoExc
               /\ tmp_files' = Append(tmp_files, last'.arg)
               /\ UNCHANGED <<fs, own_files>>
          ELSE /\ exc' = Raise("ValueError")
               /\ UNCHANGED <<fs, tmp_files, own_files>>]_vars

-----------------------------------------------------------------------------
(* Properties of the fields across execute (Spec) *)

\* C16: in every reachable state stdin is None or the UTF-8 encoding of a
\* text given to set_stdin; it is never a decoded str.
C16_StdinIsNoneOrEncodedBytes ==
    \/ stdin = PyNone
    \/ \E t \in StdinTexts : stdin = PyBytes(Encode(t))

\* C17: an execute that returns normally leaves cmd, stdin, code, stdout,
\* stderr and files as they were.
C17_SuccessfulExecuteKeepsFields ==
    [][(last'.op = "execute" /\ exc' = NoExc) => UNCHANGED benchVars]_vars

\* execute returned normally with stdin, an expected stdout and a file
\* check configured
C17_Witness ==
    /\ last.op = "execute"
    /\ exc = NoExc
    /\ stdin.kind = "bytes"
    /\ stdout # <<>>
    /\ files # <<>>

\* C18: add_file_check raises ValueError and leaves files unchanged for
\* every mode that is not EXISTS, NOT_EXISTS or a str (the ints 0 and 1
\* included); for a valid mode it appends the one pair (filename, mode).
C18_OnlyBoolOrStrModeAccepted ==
    [][last'.op = "add_file_check" =>
          IF last'.arg[2].k \in {"bool", "str"}
          THEN exc' = NoExc /\ files' = Append(files, last'.arg)
          ELSE exc' = Raise("ValueError") /\ files' = files]_vars

-----------------------------------------------------------------------------
(* Properties of a failing deletion in __exit__ (SpecTMP) *)

\* C19 as stated: when the rmdir of a tracked directory that is not empty
\* failed in __exit__, the failure is passed over and every other tracked
\* entry that existed is deleted all the same.
C19_FailedDeletionIgnored ==
    (phase = "done" /\ exc.type = "OSError")
    => \A q \in Tracked \ {last.arg.f} : exists(hist.fsAtExit, q) => ~LExists(fs, q)

LaterEntries(i) == {tmp_files[k] : k \in (i + 1)..Len(tmp_files)}

\* C19 amended: a deletion that fails in __exit__ raises its error and ends
\* the loop there: nothing is changed by the failing step or after it, and
\* the failing entry and those registered before it stay as __exit__ found
\* them (unless the same path was also registered later).
C19_FailedDeletionEndsExit ==
    [][/\ (last'.op = "__exit__" /\ last'.arg.did = "rmdir"
             /\ ~IsEmptyDir(fs, last'.arg.f)) => exc'.type # "none"
       /\ (last'.op = "__exit__" /\ exc'.type # "none") =>
             /\ phase' = "done"
             /\ fs' = fs
             /\ \A j \in 1..last'.arg.i :
                   tmp_files[j] \notin LaterEntries(last'.arg.i)
                   => fs'[tmp_files[j]] = hist.fsAtExit[tmp_files[j]]
       /\ phase = "done" => UNCHANGED <<fs, phase>>]_vars

\* the rmdir of a directory that is not empty ended __exit__ while an entry
\* registered earlier was still waiting and is still there
C19_Witness ==
    /\ phase = "done"
    /\ exc.type = "OSError"
    /\ last.arg.i > 1
    /\ LExists(fs, tmp_files[1])
    /\ tmp_files[1] # last.arg.f

\* C20: set_expected(selector, value) with selector exactly CODE, STDOUT or
\* STDERR sets that expected field and leaves the other two, cmd, stdin and
\* files alone; set_expected(code, stdout, stderr) replaces the three
\* expected fields and leaves cmd, stdin and files alone.
C20_SetExpectedSetsOnlyItsFields ==
    [][last'.op = "set_expected" =>
          LET a == last'.arg
              Kept == exc' = NoExc /\ UNCHANGED <<cmd, stdin, files>>
          IN  IF a[3] # PyNone
              THEN Kept /\ code' = a[1] /\ stdout' = a[2] /\ stderr' = a[3].val
              ELSE /\ a[1] = CODE => (Kept /\ code' = a[2] /\ UNCHANGED <<stdout, stderr>>)
                   /\ a[1] = STDOUT => (Kept /\ stdout' = a[2] /\ UNCHANGED <<code, stderr>>)
                   /\ a[1] = STDERR => (Kept /\ stderr' = a[2] /\ UNCHANGED <<code, stdout>>)]_vars

\* set_expected(STDERR, text) was called with the other two expected fields
\* holding values of an earlier call, and they are still there
C20_Witness ==
    /\ last.op = "set_expected"
    /\ last.arg[3] = PyNone
    /\ last.arg[1] = STDERR
    /\ stderr = last.arg[2]
    /\ stderr # <<>>
    /\ code # 0
    /\ stdout # <<>>

-----------------------------------------------------------------------------
(* Frame of the mutators (Spec) *)

CmdOps == {"set_cmd", "cmd_append", "cmd_insert", "cmd_replace", "cmd_pop"}

\* C21: set_cmd, cmd_append, cmd_insert, cmd_replace and cmd_pop change only
\* cmd, set_stdin changes only stdin and add_file_check changes only files;
\* code, stdout and stderr are changed by set_expected and reset alone, and
\* execute judges the child against the values they hold at that moment.
C21_MutatorsChangeOnlyTheirField ==
    [][/\ last'.op \in CmdOps => UNCHANGED <<stdin, code, stdout, stderr, files>>
       /\ last'.op = "set_stdin" => UNCHANGED <<cmd, code, stdout, stderr, files>>
       /\ last'.op = "add_file_check" => UNCHANGED <<cmd, stdin, code, stdout, stderr>>
       /\ last'.op \notin {"set_expected", "reset"} => UNCHANGED <<code, stdout, stderr>>
       /\ (last'.op = "execute" /\ exc' = NoExc) =>
             /\ last'.arg.returncode = code
             /\ last'.arg.out = Encode(stdout)
             /\ last'.arg.err = Encode(stderr)
       /\ (last'.op = "execute" /\ exc'.type = "TestExperimentFailure") =>
             /\ exc'.exp_code = code
             /\ exc'.exp_stdout = stdout
             /\ exc'.exp_stderr = stderr]_vars

\* set_cmd put a new command in place while stdin, the three expected
\* values and a file check of an earlier experiment were set
C21_Witness ==
    /\ last.op = "set_cmd"
    /\ cmd # <<>>
    /\ stdin # PyNone
    /\ code = 1
    /\ stdout # <<>>
    /\ stderr # <<>>
    /\ files # <<>>

=============================================================================
